---- MODULE Spec2Model ----
(***************************************************************************)
(* Model of the gesture engine of leap_mouse.py: LeapMouseListener (the    *)
(* per-frame dispatcher, mode arbiter, mode handlers, sticky pinch), the   *)
(* focus poller and the main loop's shutdown path.                         *)
(*                                                                         *)
(* Spec runs a frame, an iteration of the poller and the shutdown as one   *)
(* step each.  SpecRace runs the two threads statement by statement.       *)
(* SpecArbiter and SpecMap apply determine_mode and map_to_screen to their *)
(* inputs, SpecHold runs a session of right-hand-only frames.              *)
(*                                                                         *)
(* Units.  Strengths (grab, pinch) are integers in tenths (10 = 1.0), as are  *)
(* the factors (sensitivity, smoothing, pinch_smoothing).                   *)
(* scroll_sensitivity and zoom_sensitivity are in hundredths.  Times are   *)
(* in centiseconds.  Positions are in millimetres, pixels are pixels.      *)
(* Python's int() truncates toward zero: Trunc.  The floating-point        *)
(* smoothing of the pinch is computed in fixed point at the resolution of  *)
(* the strengths; the coordinate mapping is computed exactly.              *)
(***************************************************************************)
EXTENDS Integers, Sequences, FiniteSets, TLC

VARIABLES
    mode,                       \* self.mode (self.prev_mode is written, never read)
    smoothed_position,          \* None or <<x, y>>
    smoothed_pinch,
    is_pinched, pinch_start_time, is_dragging, did_drag, last_click_time,
    is_panning, last_pan_pos,
    last_scroll_y, last_hand_distance,
    exit_start_time,
    window_active,              \* self._window_active
    target_window,              \* config.target_window (None or a name)
    monitor_stopped,            \* self._stop_window_monitor is set
    should_exit,                \* main(): should_exit
    running,                    \* main(): inside `with connection.open()`
    left_down, middle_down,     \* the actuator: which buttons pynput holds down
    now,                        \* the clock read by time.time()
    calls,                      \* actuator calls made by the last step, in order
    exit_calls,                 \* number of exit_callback() invocations so far
    event,                      \* SpecArbiter: the hands a mode is determined for;
                                \* SpecRace: the frame on_tracking_event is running on
    arbitrated,                 \* SpecArbiter: the mode determine_mode returned, or None
    frame_pc,                   \* SpecRace: where the tracking thread is in on_tracking_event
    poller_pc,                  \* SpecRace: where the monitor thread is in _monitor_window
    config,                     \* SpecMap: the Config map_to_screen reads, or None
    mapped,                     \* SpecMap: what map_to_screen returned or raised, or None
    controller,                 \* SpecWebSocket: the LeapWebSocketController and its mouse
    history                     \* SpecWebSocket: the pinch strengths of the last two frames
                                \* with hands, and the times of the clicks made so far

vars == << mode, smoothed_position, smoothed_pinch, is_pinched,
           pinch_start_time, is_dragging, did_drag, last_click_time, is_panning,
           last_pan_pos, last_scroll_y, last_hand_distance, exit_start_time,
           window_active, target_window, monitor_stopped, should_exit, running,
           left_down, middle_down, now, calls, exit_calls, event, arbitrated,
           frame_pc, poller_pc, config, mapped, controller, history >>

(* The variables that only SpecRace, SpecMap and SpecWebSocket change. *)
others == << frame_pc, poller_pc, config, mapped, controller, history >>

----------------------------------------------------------------------------
(* Optional values: None is the empty tuple, a present value v is <<v>>.   *)
None == << >>
Some(v) == << v >>
IsNone(o) == o = << >>
Val(o) == o[1]

(* int(num / den) for den > 0: truncation toward zero. *)
Trunc(num, den) == IF num >= 0 THEN num \div den ELSE -((-num) \div den)

Max(a, b) == IF a >= b THEN a ELSE b
Min(a, b) == IF a <= b THEN a ELSE b

(* math.sqrt, to the millimetre below. *)
ISqrt(n) == CHOOSE r \in 0..n : r * r <= n /\ (r + 1) * (r + 1) > n

----------------------------------------------------------------------------
(* Config (dataclass defaults). *)
sensitivity == 15
smoothing == 3
pinch_engage == 7
pinch_release == 3
pinch_smoothing == 5
fist_threshold == 8
open_threshold == 4
pinch_threshold == 6
drag_delay == 15
exit_hold_time == 100
scroll_sensitivity == 5
zoom_sensitivity == 2
double_click_window == 40
leap_x_range == << -150, 150 >>
leap_y_range == << 100, 350 >>
screen_width == 8
screen_height == 4

(* Bounds of the model. *)
NumReadings == 4         \* the clock is read at this many distinct instants
MaxExitCalls == 2        \* frames stop being delivered after this many exit signals

(* The instants at which the clock is read, as offsets from the first: 10  *)
(* is below drag_delay, 50 - 10 equals double_click_window, 110 - 10       *)
(* equals exit_hold_time; later readings follow every 20.                  *)
ReadingAt(i) ==
    CASE i = 1 -> 0
      [] i = 2 -> 10
      [] i = 3 -> 50
      [] i = 4 -> 110
      [] OTHER -> 110 + 20 * (i - 4)

StartTime == 2 * double_click_window   \* time.time() is far from the epoch
ClockReadings == { StartTime + ReadingAt(i) : i \in 1..NumReadings }

----------------------------------------------------------------------------
(* The listener object and the actuator it drives, as one record: the      *)
(* handlers below are functions from the record before to the record after.*)
Self ==
    [ mode |-> mode,
      smoothed_position |-> smoothed_position, smoothed_pinch |-> smoothed_pinch,
      is_pinched |-> is_pinched, pinch_start_time |-> pinch_start_time,
      is_dragging |-> is_dragging, did_drag |-> did_drag,
      last_click_time |-> last_click_time,
      is_panning |-> is_panning, last_pan_pos |-> last_pan_pos,
      last_scroll_y |-> last_scroll_y, last_hand_distance |-> last_hand_distance,
      exit_start_time |-> exit_start_time,
      should_exit |-> should_exit, exit_calls |-> exit_calls,
      left_down |-> left_down, middle_down |-> middle_down,
      calls |-> << >> ]

(* pynput's Controller: press/release change what is held down, click is a *)
(* press followed by a release, the rest leave the buttons alone.          *)
mouse_press(s, button) ==
    [ s EXCEPT !.calls = Append(@, << "press", button >>),
               !.left_down = IF button = "left" THEN TRUE ELSE @,
               !.middle_down = IF button = "middle" THEN TRUE ELSE @ ]

mouse_release(s, button) ==
    [ s EXCEPT !.calls = Append(@, << "release", button >>),
               !.left_down = IF button = "left" THEN FALSE ELSE @,
               !.middle_down = IF button = "middle" THEN FALSE ELSE @ ]

mouse_click(s, button, count) ==
    [ s EXCEPT !.calls = Append(@, << "click", button, count >>),
               !.left_down = IF button = "left" THEN FALSE ELSE @,
               !.middle_down = IF button = "middle" THEN FALSE ELSE @ ]

mouse_set_position(s, pos) == [ s EXCEPT !.calls = Append(@, << "position", pos >>) ]
mouse_move(s, dx, dy) == [ s EXCEPT !.calls = Append(@, << "move", dx, dy >>) ]
mouse_scroll(s, dx, dy) == [ s EXCEPT !.calls = Append(@, << "scroll", dx, dy >>) ]

(* main(): request_exit, the exit_callback handed to the listener. *)
request_exit(s) == [ s EXCEPT !.should_exit = TRUE, !.exit_calls = @ + 1 ]

----------------------------------------------------------------------------
(* Mutant: pinch is tested before fist. *)
get_hand_state_pinch_first(hand) ==
    IF hand.pinch_strength >= pinch_threshold THEN "pinch"
    ELSE IF hand.grab_strength >= fist_threshold THEN "fist"
    ELSE IF hand.grab_strength < open_threshold THEN "open"
    ELSE "neutral"

get_hand_state(hand) ==
    IF hand.grab_strength >= fist_threshold THEN "fist"
    ELSE IF hand.pinch_strength >= pinch_threshold THEN "pinch"
    ELSE IF hand.grab_strength < open_threshold THEN "open"
    ELSE "neutral"

(* Mutant: a lone left hand is treated like a lone right hand. *)
determine_mode_lone_left_cursor(s, left_hand, right_hand) ==
    IF IsNone(right_hand) \/ IsNone(left_hand) THEN "CURSOR"
    ELSE LET left_state == get_hand_state(Val(left_hand))
             right_state == get_hand_state(Val(right_hand))
         IN  IF left_state = "fist" /\ right_state = "fist" THEN "EXIT_PENDING"
             ELSE IF left_state = "fist" /\ right_state \in {"open", "neutral"}
                  THEN "SCROLL"
             ELSE IF left_state = "pinch" /\ right_state = "pinch" THEN "ZOOM"
             ELSE IF left_state \in {"open", "neutral"}
                     /\ right_state \in {"open", "neutral"} THEN "PAN"
             ELSE "CURSOR"

(* left_hand and right_hand are optional hands. *)
determine_mode(s, left_hand, right_hand) ==
    IF IsNone(left_hand) /\ IsNone(right_hand) THEN "CURSOR"
    ELSE IF IsNone(left_hand) /\ ~IsNone(right_hand) THEN "CURSOR"
    ELSE IF ~IsNone(left_hand) /\ IsNone(right_hand) THEN s.mode
    ELSE LET left_state == get_hand_state(Val(left_hand))
             right_state == get_hand_state(Val(right_hand))
         IN  IF left_state = "fist" /\ right_state = "fist" THEN "EXIT_PENDING"
             ELSE IF left_state = "fist" /\ right_state \in {"open", "neutral"}
                  THEN "SCROLL"
             ELSE IF left_state = "pinch" /\ right_state = "pinch" THEN "ZOOM"
             ELSE IF left_state \in {"open", "neutral"}
                     /\ right_state \in {"open", "neutral"} THEN "PAN"
             ELSE "CURSOR"

(* Mutant: the lower end of the range is not subtracted. *)
map_axis_num_no_offset(v, lo, hi, sens) ==
    LET d == hi - lo
        n == Max(0, Min(d, v))
        e == 10 * d + (2 * n - d) * sens
    IN  Max(0, Min(20 * d, e))

(* One axis of map_to_screen, exactly: the normalised coordinate is the    *)
(* fraction n/d (d = hi - lo > 0), clamped, expanded about 1/2 by sens/10, *)
(* clamped again; the result is the fraction num/den with den = 20 * d.    *)
map_axis_num(v, lo, hi, sens) ==
    LET d == hi - lo
        n == Max(0, Min(d, v - lo))
        e == 10 * d + (2 * n - d) * sens
    IN  Max(0, Min(20 * d, e))

map_to_screen_with(palm, x_range, y_range, sens, width, height) ==
    LET dx == x_range[2] - x_range[1]
        dy == y_range[2] - y_range[1]
        nx == map_axis_num(palm.x, x_range[1], x_range[2], sens)
        ny == map_axis_num(palm.y, y_range[1], y_range[2], sens)
    IN  << Trunc(nx * width, 20 * dx), Trunc((20 * dy - ny) * height, 20 * dy) >>

map_to_screen(palm) ==
    map_to_screen_with(palm, leap_x_range, leap_y_range, sensitivity,
                       screen_width, screen_height)

(* smooth_position stores its result in self.smoothed_position and returns it. *)
smooth_position(s, new_pos) ==
    IF IsNone(s.smoothed_position)
    THEN [ s EXCEPT !.smoothed_position = Some(new_pos) ]
    ELSE LET alpha == 10 - smoothing
             old == Val(s.smoothed_position)
             smooth_x == Trunc(alpha * new_pos[1] + smoothing * old[1], 10)
             smooth_y == Trunc(alpha * new_pos[2] + smoothing * old[2], 10)
         IN  [ s EXCEPT !.smoothed_position = Some(<< smooth_x, smooth_y >>) ]

(* smooth_pinch stores its result in self.smoothed_pinch and returns it. *)
smooth_pinch(s, raw_pinch) ==
    LET alpha == 10 - pinch_smoothing
    IN  [ s EXCEPT !.smoothed_pinch =
              Trunc(alpha * raw_pinch + pinch_smoothing * s.smoothed_pinch, 10) ]

(* Mutant: the drag flag is not cleared when the button is released. *)
release_dragging_flag_kept(s) ==
    IF s.is_dragging
    THEN [ mouse_release(s, "left") EXCEPT !.is_pinched = FALSE ]
    ELSE s

release_dragging(s) ==
    IF s.is_dragging
    THEN [ mouse_release(s, "left") EXCEPT !.is_dragging = FALSE, !.is_pinched = FALSE ]
    ELSE s

(* Mutant: the pan flag is not cleared when the button is released. *)
release_panning_flag_kept(s) ==
    IF s.is_panning THEN mouse_release(s, "middle") ELSE s

release_panning(s) ==
    IF s.is_panning
    THEN [ mouse_release(s, "middle") EXCEPT !.is_panning = FALSE ]
    ELSE s

release_all_buttons(s) == release_panning(release_dragging(s))

(* Mutant: the pan anchor is not cleared on a mode change. *)
handle_mode_change_pan_anchor_kept(s, new_mode) ==
    IF new_mode # s.mode
    THEN LET r == release_all_buttons(s)
         IN  [ r EXCEPT !.last_scroll_y = None,
                        !.last_hand_distance = None,
                        !.exit_start_time =
                            IF new_mode # "EXIT_PENDING" THEN None ELSE @,
                        !.mode = new_mode ]
    ELSE s

handle_mode_change(s, new_mode) ==
    IF new_mode # s.mode
    THEN LET r == release_all_buttons(s)
         IN  [ r EXCEPT !.last_scroll_y = None,
                        !.last_hand_distance = None,
                        !.last_pan_pos = None,
                        !.exit_start_time =
                            IF new_mode # "EXIT_PENDING" THEN None ELSE @,
                        !.mode = new_mode ]
    ELSE s

(* Mutants of the comparisons: release at the threshold, drag without    *)
(* delay, double-click strictly inside the window.                       *)
pinch_releases_inclusive(pinch) == pinch <= pinch_release
drag_due_at_once(pinch_duration) == pinch_duration >= 0
is_double_click_strict(time_since_last) == time_since_last < double_click_window

(* The comparisons of handle_cursor_mode and handle_exit_pending. *)
pinch_engages(pinch) == pinch >= pinch_engage
pinch_releases(pinch) == pinch < pinch_release
drag_due(pinch_duration) == pinch_duration >= drag_delay
is_double_click(time_since_last) == time_since_last <= double_click_window
exit_due(elapsed) == elapsed >= exit_hold_time

(* handle_cursor_mode, the drag start: the two flags are written, then the *)
(* button is pressed.                                                      *)
drag_start_flags(s) == [ s EXCEPT !.is_dragging = TRUE, !.did_drag = TRUE ]

(* Mutant: the end of a drag records a click time as well. *)
pinch_end_drag_counts(d, pinch, current_time) ==
    IF pinch_releases(pinch)
    THEN LET e == IF d.is_dragging
                  THEN [ mouse_release(d, "left") EXCEPT !.is_dragging = FALSE ]
                  ELSE IF ~d.did_drag
                  THEN IF is_double_click(current_time - d.last_click_time)
                       THEN mouse_click(d, "left", 2)
                       ELSE mouse_click(d, "left", 1)
                  ELSE d
         IN  [ e EXCEPT !.last_click_time = current_time,
                        !.is_pinched = FALSE,
                        !.pinch_start_time = None,
                        !.did_drag = FALSE ]
    ELSE d

(* handle_cursor_mode, `if pinch < self.config.pinch_release:`. *)
pinch_end(d, pinch, current_time) ==
    IF pinch_releases(pinch)
    THEN LET e == IF d.is_dragging
                  THEN [ mouse_release(d, "left") EXCEPT !.is_dragging = FALSE ]
                  ELSE IF ~d.did_drag
                  THEN LET time_since_last == current_time - d.last_click_time
                           c == IF is_double_click(time_since_last)
                                THEN mouse_click(d, "left", 2)
                                ELSE mouse_click(d, "left", 1)
                       IN  [ c EXCEPT !.last_click_time = current_time ]
                  ELSE d
         IN  [ e EXCEPT !.is_pinched = FALSE,
                        !.pinch_start_time = None,
                        !.did_drag = FALSE ]
    ELSE d

(* Mutant: the press is not guarded by `not self.is_dragging`. *)
sticky_pinch_press_repeats(s, pinch, current_time) ==
    IF ~s.is_pinched
    THEN IF pinch_engages(pinch)
         THEN [ s EXCEPT !.is_pinched = TRUE,
                         !.pinch_start_time = Some(current_time),
                         !.did_drag = FALSE ]
         ELSE s
    ELSE LET pinch_duration == current_time - Val(s.pinch_start_time)
             d == IF drag_due(pinch_duration)
                  THEN mouse_press(drag_start_flags(s), "left")
                  ELSE s
         IN  pinch_end(d, pinch, current_time)

(* The sticky pinch of handle_cursor_mode, after the cursor has been moved *)
(* and the pinch smoothed: pinch is the smoothed strength, current_time    *)
(* the clock reading.                                                      *)
sticky_pinch(s, pinch, current_time) ==
    IF ~s.is_pinched
    THEN IF pinch_engages(pinch)
         THEN [ s EXCEPT !.is_pinched = TRUE,
                         !.pinch_start_time = Some(current_time),
                         !.did_drag = FALSE ]
         ELSE s
    ELSE LET pinch_duration == current_time - Val(s.pinch_start_time)
             d == IF ~s.is_dragging /\ drag_due(pinch_duration)
                  THEN mouse_press(drag_start_flags(s), "left")
                  ELSE s
         IN  pinch_end(d, pinch, current_time)

(* handle_cursor_mode up to `pinch = self.smooth_pinch(...)`. *)
cursor_move(s, right_hand) ==
    LET screen_pos == map_to_screen(right_hand.palm)
        a == smooth_position(s, screen_pos)
        b == mouse_set_position(a, Val(a.smoothed_position))
    IN  smooth_pinch(b, right_hand.pinch_strength)

handle_cursor_mode(s, right_hand, current_time) ==
    LET c == cursor_move(s, right_hand)
    IN  sticky_pinch(c, c.smoothed_pinch, current_time)

(* Mutant: the anchor moves only when a scroll was emitted. *)
handle_scroll_mode_anchor_on_scroll(s, right_hand) ==
    LET current_y == right_hand.palm.y
    IN  IF ~IsNone(s.last_scroll_y)
        THEN LET delta_y == current_y - Val(s.last_scroll_y)
                 scroll_amount == Trunc(delta_y * scroll_sensitivity, 100)
             IN  IF scroll_amount # 0
                 THEN [ mouse_scroll(s, 0, scroll_amount) EXCEPT
                            !.last_scroll_y = Some(current_y) ]
                 ELSE s
        ELSE [ s EXCEPT !.last_scroll_y = Some(current_y) ]

handle_scroll_mode(s, right_hand) ==
    LET current_y == right_hand.palm.y
        a == IF ~IsNone(s.last_scroll_y)
             THEN LET delta_y == current_y - Val(s.last_scroll_y)
                      scroll_amount == Trunc(delta_y * scroll_sensitivity, 100)
                  IN  IF scroll_amount # 0 THEN mouse_scroll(s, 0, scroll_amount) ELSE s
             ELSE s
    IN  [ a EXCEPT !.last_scroll_y = Some(current_y) ]

(* handle_pan_mode, the pan start: the button is pressed, then the flag   *)
(* and the anchor are written.                                            *)
pan_start_flags(s, pos) == [ s EXCEPT !.is_panning = TRUE, !.last_pan_pos = Some(pos) ]

(* The averages are kept doubled (sum of the two palms), so that they stay *)
(* integers; the deltas are halved where they are used.                    *)
pan_anchor(left_hand, right_hand) ==
    << left_hand.palm.x + right_hand.palm.x, left_hand.palm.y + right_hand.palm.y >>

(* Mutant: the pan start does not return, and goes on to the move. *)
handle_pan_mode_no_return(s, left_hand, right_hand) ==
    LET pos == pan_anchor(left_hand, right_hand)
        a == IF ~s.is_panning
             THEN pan_start_flags(mouse_press(s, "middle"), pos)
             ELSE s
        b == IF ~IsNone(a.last_pan_pos)
             THEN LET last == Val(a.last_pan_pos)
                  IN  mouse_move(a, Trunc((pos[1] - last[1]) * sensitivity, 20),
                                    Trunc(-(pos[2] - last[2]) * sensitivity, 20))
             ELSE a
    IN  [ b EXCEPT !.last_pan_pos = Some(pos) ]

handle_pan_mode(s, left_hand, right_hand) ==
    LET avg2_x == pan_anchor(left_hand, right_hand)[1]
        avg2_y == pan_anchor(left_hand, right_hand)[2]
    IN  IF ~s.is_panning
        THEN pan_start_flags(mouse_press(s, "middle"), << avg2_x, avg2_y >>)
        ELSE LET a == IF ~IsNone(s.last_pan_pos)
                      THEN LET last == Val(s.last_pan_pos)
                               delta_x == (avg2_x - last[1]) * sensitivity
                               delta_y == -(avg2_y - last[2]) * sensitivity
                           IN  mouse_move(s, Trunc(delta_x, 20), Trunc(delta_y, 20))
                      ELSE s
             IN  [ a EXCEPT !.last_pan_pos = Some(<< avg2_x, avg2_y >>) ]

handle_zoom_mode(s, left_hand, right_hand) ==
    LET dx == right_hand.palm.x - left_hand.palm.x
        dy == right_hand.palm.y - left_hand.palm.y
        dz == right_hand.palm.z - left_hand.palm.z
        distance == ISqrt(dx * dx + dy * dy + dz * dz)
        a == IF ~IsNone(s.last_hand_distance)
             THEN LET delta == distance - Val(s.last_hand_distance)
                      scroll_amount == Trunc(delta * zoom_sensitivity, 100)
                  IN  IF scroll_amount # 0 THEN mouse_scroll(s, 0, scroll_amount) ELSE s
             ELSE s
    IN  [ a EXCEPT !.last_hand_distance = Some(distance) ]

handle_exit_pending(s, current_time) ==
    LET a == IF IsNone(s.exit_start_time)
             THEN [ s EXCEPT !.exit_start_time = Some(current_time) ]
             ELSE s
        elapsed == current_time - Val(a.exit_start_time)
    IN  IF exit_due(elapsed) THEN request_exit(a) ELSE a

(* Mutant: the gate passes whatever the flag says. *)
is_target_window_active_always(active) == TRUE

is_target_window_active(active) ==
    IF IsNone(target_window) THEN TRUE ELSE active

(* Mutant: only a drag is looked for when the hands are lost. *)
handle_no_hands_drag_only(s) ==
    IF s.is_dragging THEN release_all_buttons(s) ELSE s

(* on_tracking_event: the frame reports no hands. *)
handle_no_hands(s) ==
    IF s.is_dragging \/ s.is_panning THEN release_all_buttons(s) ELSE s

(* on_tracking_event, "Execute mode-specific behavior". *)
run_mode_handler(m, left_hand, right_hand, current_time) ==
    IF m.mode = "CURSOR" /\ ~IsNone(right_hand)
    THEN handle_cursor_mode(m, Val(right_hand), current_time)
    ELSE IF m.mode = "SCROLL" /\ ~IsNone(right_hand)
    THEN handle_scroll_mode(m, Val(right_hand))
    ELSE IF m.mode = "PAN" /\ ~IsNone(left_hand) /\ ~IsNone(right_hand)
    THEN handle_pan_mode(m, Val(left_hand), Val(right_hand))
    ELSE IF m.mode = "ZOOM" /\ ~IsNone(left_hand) /\ ~IsNone(right_hand)
    THEN handle_zoom_mode(m, Val(left_hand), Val(right_hand))
    ELSE IF m.mode = "EXIT_PENDING"
    THEN handle_exit_pending(m, current_time)
    ELSE m

(* The body of on_tracking_event after the focus gate. *)
process_frame(s, ev, current_time) ==
    LET left_hand == ev.left
        right_hand == ev.right
    IN  IF IsNone(left_hand) /\ IsNone(right_hand)
        THEN handle_no_hands(s)
        ELSE LET new_mode == determine_mode(s, left_hand, right_hand)
                 m == handle_mode_change(s, new_mode)
             IN  run_mode_handler(m, left_hand, right_hand, current_time)

on_tracking_event(s, ev, active, current_time) ==
    IF ~is_target_window_active(active) THEN s ELSE process_frame(s, ev, current_time)

----------------------------------------------------------------------------
(* Inputs. *)
Palm(x, y, z) == [ x |-> x, y |-> y, z |-> z ]
Hand(g, p, palm) == [ grab_strength |-> g, pinch_strength |-> p, palm |-> palm ]

Modes == { "CURSOR", "SCROLL", "PAN", "ZOOM", "EXIT_PENDING" }
(* Poses: (grab, pinch) pairs that get_hand_state classifies open, pinch   *)
(* and fist, and for the right hand neutral as well.  The two right palms  *)
(* are 25 mm apart in height (on the same pixel row of the small screen)   *)
(* and 80 mm apart in depth.                                               *)
LeftPoses == { << 0, 0 >>, << 0, 10 >>, << 10, 0 >> }
RightPoses == { << 0, 0 >>, << 5, 0 >>, << 0, 10 >>, << 10, 0 >> }
LeftPalms == { Palm(-20, 225, 0) }
RightPalms == { Palm(0, 225, 0), Palm(0, 200, 80) }

LeftHands == { Hand(gp[1], gp[2], q) : gp \in LeftPoses, q \in LeftPalms }
RightHands == { Hand(gp[1], gp[2], q) : gp \in RightPoses, q \in RightPalms }
OptLeft == { None } \cup { Some(h) : h \in LeftHands }
OptRight == { None } \cup { Some(h) : h \in RightHands }
Events == { [ left |-> l, right |-> r ] : l \in OptLeft, r \in OptRight }

(* get_frontmost_app and str.lower on the names that occur. *)
AppNames == { "MeshLab", "meshlab", "Finder" }
Lower(name) ==
    IF name = "MeshLab" THEN "meshlab" ELSE IF name = "Finder" THEN "finder" ELSE name
(* The configurations followed: a target window is set, so the monitor    *)
(* runs.  With target_window None the gate always passes and no monitor   *)
(* runs: the engine then behaves as it does here while the window is      *)
(* active.                                                                *)
TargetWindows == { Some("MeshLab") }

----------------------------------------------------------------------------
(* src/leap_mouse_websocket.py: the controller fed by the WebSocket API.   *)
(* Its Config has its own defaults; pinch strengths are in sixtieths, so   *)
(* that 1 - (dist - 20) / 60 is exact for distances in millimetres.        *)
ws_sensitivity == 15            \* 1.5, in tenths
ws_smoothing == 3               \* 0.3, in tenths
ws_click_threshold == 42        \* 0.7, in sixtieths
ws_double_click_window == 40    \* 0.4 s, in centiseconds
ws_click_cooldown == 15         \* 0.15 s, in centiseconds
ws_leap_x_range == << -150, 150 >>
ws_leap_y_range == << 100, 350 >>

(* LeapWebSocketController.__init__; calls are the mouse calls of the      *)
(* last step.                                                              *)
InitController ==
    [ smoothed_pos |-> None, is_pinching |-> FALSE, last_click_time |-> 0,
      calls |-> << >> ]

NoHistory == [ prev |-> None, cur |-> None, click_times |-> << >> ]

(* LeapWebSocketController.map_to_screen: the arithmetic of the listener's *)
(* map_to_screen on this Config.                                           *)
ws_map_to_screen(x, y) ==
    map_to_screen_with([ x |-> x, y |-> y, z |-> 0 ], ws_leap_x_range, ws_leap_y_range,
                       ws_sensitivity, screen_width, screen_height)

(* LeapWebSocketController.smooth_position stores and returns its result. *)
ws_smooth_position(c, pos) ==
    IF IsNone(c.smoothed_pos)
    THEN [ c EXCEPT !.smoothed_pos = Some(pos) ]
    ELSE LET alpha == 10 - ws_smoothing
             old == Val(c.smoothed_pos)
             smooth_x == Trunc(alpha * pos[1] + ws_smoothing * old[1], 10)
             smooth_y == Trunc(alpha * pos[2] + ws_smoothing * old[2], 10)
         IN  [ c EXCEPT !.smoothed_pos = Some(<< smooth_x, smooth_y >>) ]

(* The tip of the last pointable of the given type, as the loop leaves it. *)
tip_of(pointables, type) ==
    LET idx == { i \in 1..Len(pointables) : pointables[i].type = type }
    IN  IF idx = {} THEN None
        ELSE Some(pointables[CHOOSE i \in idx : \A j \in idx : j <= i].tipPosition)

calculate_pinch_strength(hand) ==
    IF ~IsNone(hand.pinchStrength) THEN Val(hand.pinchStrength)
    ELSE LET thumb_tip == tip_of(hand.pointables, 0)
             index_tip == tip_of(hand.pointables, 1)
         IN  IF ~IsNone(thumb_tip) /\ ~IsNone(index_tip)
             THEN LET a == Val(thumb_tip)
                      b == Val(index_tip)
                      dist == ISqrt((a[1] - b[1]) * (a[1] - b[1])
                                    + (a[2] - b[2]) * (a[2] - b[2])
                                    + (a[3] - b[3]) * (a[3] - b[3]))
                  IN  Max(0, Min(60, 60 - (dist - 20)))
             ELSE 0

(* `hand = hands[0]`, unless a hand of type right comes in the list. *)
select_hand(hands) ==
    LET rights == { i \in 1..Len(hands) : hands[i].type = "right" }
    IN  IF rights = {} THEN hands[1]
        ELSE hands[CHOOSE i \in rights : \A j \in rights : i <= j]

(* Mutant: a rising edge clicks however recent the last click is. *)
handle_frame_no_cooldown(c, data, current_time) ==
    IF data.hands = << >> THEN c
    ELSE LET hand == select_hand(data.hands)
             screen_pos == ws_map_to_screen(hand.palmPosition[1], hand.palmPosition[2])
             a == ws_smooth_position(c, screen_pos)
             smooth_pos == Val(a.smoothed_pos)
             b == [ a EXCEPT !.calls =
                        Append(@, << "position", smooth_pos[1], smooth_pos[2] >>) ]
             is_pinching_now == calculate_pinch_strength(hand) >= ws_click_threshold
             time_since_last == current_time - b.last_click_time
             d == IF is_pinching_now /\ ~b.is_pinching
                  THEN [ b EXCEPT !.calls =
                             Append(@, << "click", "left",
                                          IF time_since_last <= ws_double_click_window
                                          THEN 2 ELSE 1 >>),
                                  !.last_click_time = current_time ]
                  ELSE b
         IN  [ d EXCEPT !.is_pinching = is_pinching_now ]

handle_frame(c, data, current_time) ==
    IF data.hands = << >> THEN c
    ELSE LET hand == select_hand(data.hands)
             screen_pos == ws_map_to_screen(hand.palmPosition[1], hand.palmPosition[2])
             a == ws_smooth_position(c, screen_pos)
             smooth_pos == Val(a.smoothed_pos)
             b == [ a EXCEPT !.calls =
                        Append(@, << "position", smooth_pos[1], smooth_pos[2] >>) ]
             pinch_strength == calculate_pinch_strength(hand)
             is_pinching_now == pinch_strength >= ws_click_threshold
             time_since_last == current_time - b.last_click_time
             d == IF is_pinching_now /\ ~b.is_pinching
                     /\ time_since_last >= ws_click_cooldown
                  THEN [ b EXCEPT !.calls =
                             Append(@, << "click", "left",
                                          IF time_since_last <= ws_double_click_window
                                          THEN 2 ELSE 1 >>),
                                  !.last_click_time = current_time ]
                  ELSE b
         IN  [ d EXCEPT !.is_pinching = is_pinching_now ]

----------------------------------------------------------------------------
Commit(s) ==
    /\ mode' = s.mode
    /\ smoothed_position' = s.smoothed_position
    /\ smoothed_pinch' = s.smoothed_pinch
    /\ is_pinched' = s.is_pinched
    /\ pinch_start_time' = s.pinch_start_time
    /\ is_dragging' = s.is_dragging
    /\ did_drag' = s.did_drag
    /\ last_click_time' = s.last_click_time
    /\ is_panning' = s.is_panning
    /\ last_pan_pos' = s.last_pan_pos
    /\ last_scroll_y' = s.last_scroll_y
    /\ last_hand_distance' = s.last_hand_distance
    /\ exit_start_time' = s.exit_start_time
    /\ should_exit' = s.should_exit
    /\ exit_calls' = s.exit_calls
    /\ left_down' = s.left_down
    /\ middle_down' = s.middle_down
    /\ calls' = s.calls

(* LeapMouseListener.__init__, with main()'s should_exit and an idle mouse. *)
InitListener ==
    /\ smoothed_position = None
    /\ smoothed_pinch = 0
    /\ is_pinched = FALSE
    /\ pinch_start_time = None
    /\ is_dragging = FALSE
    /\ did_drag = FALSE
    /\ last_click_time = 0
    /\ is_panning = FALSE
    /\ last_pan_pos = None
    /\ last_scroll_y = None
    /\ last_hand_distance = None
    /\ exit_start_time = None
    /\ window_active = IsNone(target_window)
    /\ monitor_stopped = FALSE
    /\ should_exit = FALSE
    /\ left_down = FALSE
    /\ middle_down = FALSE
    /\ calls = << >>
    /\ exit_calls = 0

Init ==
    /\ target_window \in TargetWindows
    /\ mode = "CURSOR"
    /\ InitListener
    /\ running = TRUE
    /\ now = StartTime
    /\ event = None
    /\ arbitrated = None
    /\ frame_pc = "idle"
    /\ controller = InitController
    /\ history = NoHistory
    /\ poller_pc = "sleep"
    /\ config = None
    /\ mapped = None

(* Time passes between the steps of the program. *)
Tick ==
    /\ running
    /\ \E i \in 1..(NumReadings - 1) :
          /\ now = StartTime + ReadingAt(i)
          /\ now' = StartTime + ReadingAt(i + 1)
    /\ calls' = << >>
    /\ UNCHANGED << mode, smoothed_position, smoothed_pinch, is_pinched,
                    pinch_start_time, is_dragging, did_drag, last_click_time,
                    is_panning, last_pan_pos, last_scroll_y, last_hand_distance,
                    exit_start_time, window_active, target_window, monitor_stopped,
                    should_exit, running, left_down, middle_down, exit_calls, event, arbitrated, others >>

(* The tracking connection delivers a frame while it is open. *)
OnTrackingEvent ==
    /\ running
    /\ exit_calls < MaxExitCalls
    /\ \E ev \in Events :
          Commit(on_tracking_event(Self, ev, window_active, now))
    /\ UNCHANGED << window_active, target_window, monitor_stopped, running, now, event, arbitrated, others >>

(* Mutant: the names are compared as they are, without lower(). *)
monitor_window_step_case_sensitive(s, active_app) ==
    IF ~IsNone(active_app)
    THEN LET is_active == Val(target_window) = Val(active_app)
             was_active == window_active
         IN  [ active |-> is_active,
               self |-> IF is_active # was_active /\ ~is_active
                        THEN release_all_buttons(s) ELSE s ]
    ELSE [ active |-> window_active, self |-> s ]

(* One iteration of _monitor_window, run between frames. *)
monitor_window_step(s, active_app) ==
    IF ~IsNone(active_app)
    THEN LET is_active == Lower(Val(target_window)) = Lower(Val(active_app))
             was_active == window_active
         IN  [ active |-> is_active,
               self |-> IF is_active # was_active /\ ~is_active
                        THEN release_all_buttons(s) ELSE s ]
    ELSE [ active |-> window_active, self |-> s ]

MonitorWindow ==
    /\ ~IsNone(target_window)
    /\ ~monitor_stopped
    /\ \E active_app \in { None } \cup { Some(a) : a \in AppNames } :
          LET r == monitor_window_step(Self, active_app)
          IN  /\ window_active' = r.active
              /\ Commit(r.self)
    /\ UNCHANGED << target_window, monitor_stopped, running, now, event, arbitrated, others >>

(* main(): the loop ends (exit requested, or Ctrl+C or an error of the     *)
(* connection), the connection closes and the finally block runs.          *)
main_finally(s) == release_all_buttons(s)

MainLoopExit ==
    /\ running
    /\ should_exit
    /\ running' = FALSE
    /\ monitor_stopped' = TRUE
    /\ Commit(main_finally(Self))
    /\ UNCHANGED << window_active, target_window, now, event, arbitrated, others >>

MainInterrupted ==
    /\ running
    /\ ~should_exit
    /\ running' = FALSE
    /\ monitor_stopped' = TRUE
    /\ Commit(main_finally(Self))
    /\ UNCHANGED << window_active, target_window, now, event, arbitrated, others >>

Next == Tick \/ OnTrackingEvent \/ MonitorWindow \/ MainLoopExit \/ MainInterrupted

Spec == Init /\ [][Next]_vars

----------------------------------------------------------------------------
(* Vocabulary of the properties.  Every state of Spec is a frame boundary: *)
(* on_tracking_event, an iteration of the monitor and the finally block    *)
(* are single steps.  A property of "every frame of kind K" is stated as:  *)
(* in every reachable state in which a frame can be processed, processing  *)
(* any frame of kind K yields a result with such and such a relation to    *)
(* the state.                                                              *)
Active == is_target_window_active(window_active)
Processing == running /\ Active

NoHandsEvent == [ left |-> None, right |-> None ]
LoneLeftEvents == { ev \in Events : ~IsNone(ev.left) /\ IsNone(ev.right) }
HandEvents == Events \ { NoHandsEvent }
(* The frames handle_cursor_mode handles when the mode is already Cursor. *)
CursorEvents ==
    { ev \in Events : ~IsNone(ev.right)
                       /\ determine_mode(Self, ev.left, ev.right) = "CURSOR" }

Frame(ev) == process_frame(Self, ev, now)

Count(cs, op, arg) ==
    Cardinality({ i \in 1..Len(cs) : cs[i][1] = op /\ cs[i][2] = arg })
Presses(cs) == Count(cs, "press", "left")
Releases(cs) == Count(cs, "release", "left")
Clicks(cs) == Count(cs, "click", "left")
ClicksOf(cs, n) ==
    Cardinality({ i \in 1..Len(cs) : cs[i][1] = "click" /\ cs[i][3] = n })
ButtonCalls(cs) ==
    Cardinality({ i \in 1..Len(cs) : cs[i][1] \in { "press", "release", "click" } })

(* C1: at every frame boundary the held flags match the actuator:          *)
(* is_dragging holds exactly when the left button is down, is_panning      *)
(* exactly when the middle button is down.                                 *)
C1_FlagsMatchActuator ==
    /\ is_dragging <=> left_down
    /\ is_panning <=> middle_down

(* C1's case: the poller has just released a drag on a focus loss. *)
C1_Witness ==
    /\ ~window_active
    /\ calls = << << "release", "left" >> >>
    /\ ~is_dragging /\ ~left_down

(* C2: hysteresis.  On a Cursor-mode frame following Cursor mode, with p   *)
(* the smoothed pinch of the frame: the pinch becomes engaged only if      *)
(* p >= pinch_engage (and does so then), an engaged pinch is disengaged    *)
(* only if p < pinch_release (and is then), and for                        *)
(* pinch_release <= p < pinch_engage the engagement does not change.       *)
C2_Hysteresis ==
    (Processing /\ mode = "CURSOR") =>
        \A ev \in CursorEvents :
            LET r == Frame(ev)
                p == r.smoothed_pinch
            IN  /\ (~is_pinched /\ r.is_pinched) => p >= pinch_engage
                /\ (is_pinched /\ ~r.is_pinched) => p < pinch_release
                /\ (pinch_release <= p /\ p < pinch_engage) => r.is_pinched = is_pinched
                /\ p >= pinch_engage => r.is_pinched
                /\ p < pinch_release => ~r.is_pinched

(* C2's case: an engaged pinch whose last smoothed sample equals           *)
(* pinch_release, and has not released it.                                 *)
C2_Witness ==
    /\ mode = "CURSOR" /\ is_pinched
    /\ smoothed_pinch = pinch_release
    /\ Len(calls) = 1 /\ calls[1][1] = "position"

(* C3: click versus drag.  For an engaged pinch in Cursor mode and every   *)
(* Cursor frame, with d the time since the engaging frame and p the        *)
(* smoothed pinch: no press is outstanding while d < drag_delay; a frame   *)
(* that does not release emits no click and no release, and one press      *)
(* exactly when d >= drag_delay and the drag has not started; a releasing  *)
(* frame with d < drag_delay emits exactly one click and no press or       *)
(* release; a releasing frame with d >= drag_delay emits no click and      *)
(* exactly one release, preceded in the episode by exactly one press (in   *)
(* this frame if the drag had not started, in an earlier one otherwise).   *)
C3_ClickVersusDrag ==
    /\ is_pinched => ~IsNone(pinch_start_time)
    /\ (is_pinched /\ ~is_dragging) => ~did_drag
    /\ (is_pinched /\ is_dragging) => (now - Val(pinch_start_time) >= drag_delay)
    /\ (Processing /\ mode = "CURSOR" /\ is_pinched) =>
          \A ev \in CursorEvents :
              LET r == Frame(ev)
                  p == r.smoothed_pinch
                  d == now - Val(pinch_start_time)
                  cs == r.calls
              IN  /\ p >= pinch_release =>
                        /\ Clicks(cs) = 0 /\ Releases(cs) = 0
                        /\ Presses(cs) = IF d >= drag_delay /\ ~is_dragging THEN 1 ELSE 0
                        /\ r.is_pinched
                        /\ r.is_dragging <=> (d >= drag_delay)
                  /\ (p < pinch_release /\ d < drag_delay) =>
                        /\ Clicks(cs) = 1 /\ Presses(cs) = 0 /\ Releases(cs) = 0
                        /\ ~r.is_pinched /\ ~r.is_dragging /\ ~r.left_down
                  /\ (p < pinch_release /\ d >= drag_delay) =>
                        /\ Clicks(cs) = 0 /\ Releases(cs) = 1
                        /\ Presses(cs) = IF is_dragging THEN 0 ELSE 1
                        /\ cs[Len(cs)] = << "release", "left" >>
                        /\ ~r.is_pinched /\ ~r.is_dragging /\ ~r.left_down

(* C3's case: a drag that was started on an earlier frame has just been    *)
(* ended by the pinch falling below pinch_release.                         *)
C3_Witness ==
    /\ mode = "CURSOR" /\ ~is_pinched /\ IsNone(pinch_start_time)
    /\ Len(calls) = 2 /\ calls[1][1] = "position"
    /\ calls[2] = << "release", "left" >>

(* C4: double-click.  A click-qualifying release (engaged, drag not        *)
(* started, d < drag_delay, p < pinch_release) emits exactly one           *)
(* double-click and no single click when the previous click is at most     *)
(* double_click_window old, and exactly one single click and no double     *)
(* click when it is older; last_click_time becomes the time of that click, *)
(* and no other Cursor frame changes it.                                   *)
C4_DoubleClick ==
    (Processing /\ mode = "CURSOR") =>
        \A ev \in CursorEvents :
            LET r == Frame(ev)
                p == r.smoothed_pinch
                cs == r.calls
                qualifies == /\ is_pinched /\ ~is_dragging
                             /\ now - Val(pinch_start_time) < drag_delay
                             /\ p < pinch_release
            IN  /\ (qualifies /\ now - last_click_time <= double_click_window) =>
                      /\ ClicksOf(cs, 2) = 1 /\ ClicksOf(cs, 1) = 0
                      /\ r.last_click_time = now
                /\ (qualifies /\ now - last_click_time > double_click_window) =>
                      /\ ClicksOf(cs, 1) = 1 /\ ClicksOf(cs, 2) = 0
                      /\ r.last_click_time = now
                /\ ~qualifies =>
                      /\ Clicks(cs) = 0
                      /\ r.last_click_time = last_click_time

(* C4's case: a double-click has just been emitted, later than the first   *)
(* clock reading.                                                          *)
C4_Witness ==
    /\ Len(calls) = 2 /\ calls[2] = << "click", "left", 2 >>
    /\ last_click_time = now /\ now > StartTime

----------------------------------------------------------------------------
(* determine_mode as a function of its inputs: the current mode and the    *)
(* grab and pinch strengths of a left and a right hand, each over the      *)
(* whole range of strengths.                                               *)
Strengths == 0..10
ArbiterPalm == Palm(0, 225, 0)
ArbiterEvents ==
    { [ left |-> Some(Hand(lg, lp, ArbiterPalm)), right |-> Some(Hand(rg, rp, ArbiterPalm)) ] :
        lg \in Strengths, lp \in Strengths, rg \in Strengths, rp \in Strengths }

InitArbiter ==
    /\ target_window \in TargetWindows
    /\ mode \in Modes
    /\ InitListener
    /\ running = TRUE
    /\ now = StartTime
    /\ event \in { Some(ev) : ev \in ArbiterEvents }
    /\ arbitrated = None
    /\ frame_pc = "idle"
    /\ controller = InitController
    /\ history = NoHistory
    /\ poller_pc = "sleep"
    /\ config = None
    /\ mapped = None

Arbitrate ==
    /\ IsNone(arbitrated)
    /\ arbitrated' = Some(determine_mode(Self, Val(event).left, Val(event).right))
    /\ UNCHANGED << mode, smoothed_position, smoothed_pinch, is_pinched,
                    pinch_start_time, is_dragging, did_drag, last_click_time,
                    is_panning, last_pan_pos, last_scroll_y, last_hand_distance,
                    exit_start_time, window_active, target_window, monitor_stopped,
                    should_exit, running, left_down, middle_down, now, calls,
                    exit_calls, event, others >>

SpecArbiter == InitArbiter /\ [][Arbitrate]_vars

(* The classification and the table as the specification words them. *)
IsFist(hand) == hand.grab_strength >= fist_threshold
IsPinch(hand) == ~IsFist(hand) /\ hand.pinch_strength >= pinch_threshold
IsOpen(hand) == ~IsFist(hand) /\ ~IsPinch(hand) /\ hand.grab_strength < open_threshold
IsNeutral(hand) == ~IsFist(hand) /\ ~IsPinch(hand) /\ ~IsOpen(hand)
IsRelaxed(hand) == IsOpen(hand) \/ IsNeutral(hand)

TableMode(left, right) ==
    CASE IsFist(left) /\ IsFist(right) -> "EXIT_PENDING"
      [] IsFist(left) /\ IsRelaxed(right) -> "SCROLL"
      [] IsPinch(left) /\ IsPinch(right) -> "ZOOM"
      [] IsRelaxed(left) /\ IsRelaxed(right) -> "PAN"
      [] OTHER -> "CURSOR"

(* C5: for every grab and pinch strength of a present left and right hand  *)
(* and every current mode, determine_mode returns the mode of the table    *)
(* applied to the hands' classifications (Fist over Pinch over Open over   *)
(* Neutral); two fists give ExitPending whatever the pinch strengths.      *)
C5_ModeTable ==
    ~IsNone(arbitrated) =>
        LET left == Val(Val(event).left)
            right == Val(Val(event).right)
        IN  /\ Val(arbitrated) = TableMode(left, right)
            /\ (left.grab_strength >= fist_threshold /\ right.grab_strength >= fist_threshold)
                  => Val(arbitrated) = "EXIT_PENDING"

(* C5's case: two fists that are also pinching, arbitrated while in Zoom. *)
C5_Witness ==
    /\ arbitrated = Some("EXIT_PENDING")
    /\ mode = "ZOOM"
    /\ Val(Val(event).left).pinch_strength >= pinch_threshold
    /\ Val(Val(event).right).pinch_strength >= pinch_threshold

----------------------------------------------------------------------------
(* C6: a processed frame with a left hand only leaves the mode unchanged,  *)
(* whatever the mode and the hand's pose: it makes no actuator call,       *)
(* releases no button, and clears no anchor and no timer.                  *)
C6_LoneLeftHand ==
    Processing =>
        \A ev \in LoneLeftEvents :
            LET r == Frame(ev)
            IN  /\ r.mode = mode
                /\ r.calls = << >>
                /\ r.left_down = left_down /\ r.middle_down = middle_down
                /\ r.is_dragging = is_dragging /\ r.is_panning = is_panning
                /\ r.is_pinched = is_pinched
                /\ r.last_scroll_y = last_scroll_y
                /\ r.last_pan_pos = last_pan_pos
                /\ r.last_hand_distance = last_hand_distance
                /\ r.pinch_start_time = pinch_start_time
                /\ r.exit_start_time = exit_start_time

(* C6's case: Scroll mode with its anchor set, a lone left fist arrives    *)
(* and the mode stays Scroll.                                              *)
C6_Witness ==
    /\ Processing /\ mode = "SCROLL" /\ ~IsNone(last_scroll_y)
    /\ \E ev \in LoneLeftEvents :
          /\ get_hand_state(Val(ev.left)) = "fist"
          /\ Frame(ev).mode = "SCROLL"
          /\ Frame(ev).last_scroll_y = last_scroll_y

Idle(r) == ~r.is_pinched /\ ~r.is_dragging /\ ~r.left_down

C9_HardReset ==
    /\ Processing =>
          \A ev \in Events :
              /\ IsNone(ev.right) => Idle(Frame(ev))
              /\ (mode = "CURSOR" /\ Frame(ev).mode # "CURSOR") => Idle(Frame(ev))
    /\ (~monitor_stopped /\ window_active) =>
          \A app \in AppNames :
              LET m == monitor_window_step(Self, Some(app))
              IN  ~m.active => Idle(m.self)

(* C10 (as claimed): the exit callback is invoked at most once. *)
C10_ExitAtMostOnce == exit_calls <= 1

----------------------------------------------------------------------------
(* The engine states release_all_buttons can be called in: the reachable   *)
(* state with every combination of the flags and buttons it reads or       *)
(* writes.                                                                 *)
EngineStates ==
    { [ Self EXCEPT !.is_dragging = d, !.is_panning = p, !.is_pinched = q,
                    !.left_down = l, !.middle_down = m ] :
        d \in BOOLEAN, p \in BOOLEAN, q \in BOOLEAN, l \in BOOLEAN, m \in BOOLEAN }

NoCalls(s) == [ s EXCEPT !.calls = << >> ]

----------------------------------------------------------------------------
BothFists(ev) ==
    /\ ~IsNone(ev.left) /\ ~IsNone(ev.right)
    /\ get_hand_state(Val(ev.left)) = "fist"
    /\ get_hand_state(Val(ev.right)) = "fist"

(* C17 (as claimed): the exit callback is invoked only on a frame with     *)
(* both hands present and classified Fist; a processed frame that is not   *)
(* such a frame (a left hand only, no hands, any other pose) leaves no     *)
(* countdown running, and none is running while the target window is       *)
(* inactive.                                                               *)
C17_ContinuousHold ==
    /\ Processing =>
          \A ev \in Events :
              LET r == Frame(ev)
              IN  /\ r.exit_calls > exit_calls => BothFists(ev)
                  /\ ~BothFists(ev) => IsNone(r.exit_start_time)
    /\ (running /\ ~Active) => IsNone(exit_start_time)

(* The frames handle_cursor_mode handles, whatever the mode before. *)
PinchEvents ==
    { ev \in Events : ~IsNone(ev.right) /\ Frame(ev).mode = "CURSOR" }

(* C18 (as claimed): a frame that changes the mode away from Cursor leaves *)
(* the smoothed cursor position null and the smoothed pinch zero.          *)
C18_SmoothedReset ==
    (Processing /\ mode = "CURSOR") =>
        \A ev \in HandEvents :
            LET r == Frame(ev)
            IN  r.mode # "CURSOR" =>
                    /\ IsNone(r.smoothed_position)
                    /\ r.smoothed_pinch = 0

(* C19 (as claimed): the first pinch sample of a session (no Cursor frame  *)
(* has been handled yet) yields a smoothed pinch equal to the raw sample;  *)
(* every later sample yields (1 - pinch_smoothing) * raw + pinch_smoothing *)
(* * previous, at the resolution of the strengths.                         *)
C19_PinchSmoothing ==
    Processing =>
        \A ev \in PinchEvents :
            LET raw == Val(ev.right).pinch_strength
                r == Frame(ev)
            IN  IF IsNone(smoothed_position)
                THEN r.smoothed_pinch = raw
                ELSE r.smoothed_pinch =
                        Trunc((10 - pinch_smoothing) * raw
                                  + pinch_smoothing * smoothed_pinch, 10)

----------------------------------------------------------------------------
(* map_to_screen as a function of the Config and the palm.  Positions are  *)
(* in half-millimetres here, so that the centre of every range of whole    *)
(* millimetres is a position; the mapping divides a difference of          *)
(* positions by a difference of positions and does not depend on the unit. *)
(* Dividing by a zero-width range raises ZeroDivisionError.                *)
RangeLows == { -300, -3, 0, 200 }
RangeWidths == { 0, 2, 6, 500, 600 }
Ranges == { << lo, lo + w >> : lo \in RangeLows, w \in RangeWidths }
ScreenWidths == { 1, 2, 7, 8 }
ScreenHeights == { 1, 4, 5 }
Sensitivities == { 10, 15 }

Configs ==
    [ leap_x_range : Ranges, leap_y_range : Ranges,
      screen_width : ScreenWidths, screen_height : ScreenHeights,
      sensitivity : Sensitivities ]

Degenerate(cfg) ==
    \/ cfg.leap_x_range[2] = cfg.leap_x_range[1]
    \/ cfg.leap_y_range[2] = cfg.leap_y_range[1]

map_to_screen_of(cfg, palm) ==
    IF Degenerate(cfg)
    THEN "ZeroDivisionError"
    ELSE map_to_screen_with(palm, cfg.leap_x_range, cfg.leap_y_range,
                            cfg.sensitivity, cfg.screen_width, cfg.screen_height)

CentrePalm(cfg) ==
    Palm((cfg.leap_x_range[1] + cfg.leap_x_range[2]) \div 2,
         (cfg.leap_y_range[1] + cfg.leap_y_range[2]) \div 2, 0)

(* The palms mapped: the centre of the ranges and their two corners. *)
MapPalms(cfg) ==
    { CentrePalm(cfg),
      Palm(cfg.leap_x_range[1], cfg.leap_y_range[1], 0),
      Palm(cfg.leap_x_range[2], cfg.leap_y_range[2], 0) }

(* Config(...) is a dataclass without validation: every combination of     *)
(* field values constructs, and main() goes on to the frame loop.          *)
InitMap ==
    /\ target_window = None
    /\ mode = "CURSOR"
    /\ InitListener
    /\ running = TRUE
    /\ now = StartTime
    /\ event = None
    /\ arbitrated = None
    /\ frame_pc = "idle"
    /\ controller = InitController
    /\ history = NoHistory
    /\ poller_pc = "sleep"
    /\ config \in { Some(cfg) : cfg \in Configs }
    /\ mapped = None

(* The first Cursor frame calls map_to_screen on the palm. *)
MapToScreen ==
    /\ IsNone(mapped)
    /\ \E palm \in MapPalms(Val(config)) :
          mapped' = Some([ palm |-> palm, pos |-> map_to_screen_of(Val(config), palm) ])
    /\ UNCHANGED << mode, smoothed_position, smoothed_pinch, is_pinched,
                    pinch_start_time, is_dragging, did_drag, last_click_time,
                    is_panning, last_pan_pos, last_scroll_y, last_hand_distance,
                    exit_start_time, window_active, target_window, monitor_stopped,
                    should_exit, running, left_down, middle_down, now, calls,
                    exit_calls, event, arbitrated, frame_pc, poller_pc, config,
                    controller, history >>

SpecMap == InitMap /\ [][MapToScreen]_vars

C20_DegenerateRejected ==
    /\ Degenerate(Val(config)) => IsNone(mapped)
    /\ ~IsNone(mapped) => Val(mapped).pos # "ZeroDivisionError"

----------------------------------------------------------------------------
(* The hold scenario: a session with no target window (--all-windows) in   *)
(* which only right-hand-only frames arrive, with any pinch strength, and  *)
(* in which the smoothed pinch, once it has engaged the pinch, does not    *)
(* fall below pinch_release.                                               *)
HoldHands == { Hand(0, p, q) : p \in Strengths, q \in RightPalms }

InitHold ==
    /\ target_window = None
    /\ mode = "CURSOR"
    /\ InitListener
    /\ running = TRUE
    /\ now = StartTime
    /\ event = None
    /\ arbitrated = None
    /\ frame_pc = "idle"
    /\ controller = InitController
    /\ history = NoHistory
    /\ poller_pc = "sleep"
    /\ config = None
    /\ mapped = None

HoldFrame ==
    /\ running
    /\ \E h \in HoldHands :
          LET r == on_tracking_event(Self, [ left |-> None, right |-> Some(h) ],
                                     window_active, now)
          IN  /\ is_pinched => r.smoothed_pinch >= pinch_release
              /\ Commit(r)
    /\ UNCHANGED << window_active, target_window, monitor_stopped, running, now,
                    event, arbitrated, others >>

NextHold == Tick \/ HoldFrame

SpecHold == InitHold /\ [][NextHold]_vars

----------------------------------------------------------------------------
(* The two threads step by step.  The tracking thread runs                 *)
(* on_tracking_event: the focus gate, then the no-hands test or the mode   *)
(* change, then the mode handler; the drag start and the pan start are     *)
(* split where the code writes the flag and presses the button in separate *)
(* statements.  The monitor thread runs _monitor_window: the flag is       *)
(* written under the lock, release_all_buttons runs outside it, statement  *)
(* by statement.  The threads interleave between any two steps.            *)
RaceEvents ==
    { NoHandsEvent,
      [ left |-> None, right |-> Some(Hand(0, 10, Palm(0, 225, 0))) ],
      [ left |-> None, right |-> Some(Hand(0, 0, Palm(0, 225, 0))) ],
      [ left |-> Some(Hand(0, 0, Palm(-20, 225, 0))), right |-> None ],
      [ left |-> Some(Hand(0, 0, Palm(-20, 225, 0))),
        right |-> Some(Hand(0, 0, Palm(0, 225, 0))) ] }

mapping == << config, mapped >>

(* on_tracking_event: `if not self.is_target_window_active(): return`. *)
FrameGate ==
    /\ running /\ frame_pc = "idle"
    /\ is_target_window_active(window_active)
    /\ \E ev \in RaceEvents : event' = Some(ev)
    /\ frame_pc' = "dispatch"
    /\ Commit(Self)
    /\ UNCHANGED << window_active, target_window, monitor_stopped, running, now,
                    arbitrated, poller_pc, mapping, controller, history >>

(* on_tracking_event from "Separate hands" to handle_mode_change. *)
FrameDispatch ==
    /\ frame_pc = "dispatch"
    /\ LET ev == Val(event)
       IN  IF IsNone(ev.left) /\ IsNone(ev.right)
           THEN /\ Commit(handle_no_hands(Self))
                /\ frame_pc' = "idle"
           ELSE LET m == handle_mode_change(Self, determine_mode(Self, ev.left, ev.right))
                IN  /\ Commit(m)
                    /\ frame_pc' =
                          IF m.mode = "CURSOR" /\ ~IsNone(ev.right) THEN "cursor"
                          ELSE IF m.mode = "PAN" /\ ~IsNone(ev.left) /\ ~IsNone(ev.right)
                          THEN "pan"
                          ELSE "handler"
    /\ UNCHANGED << window_active, target_window, monitor_stopped, running, now,
                    event, arbitrated, poller_pc, mapping, controller, history >>

(* handle_cursor_mode up to the drag start's flags, or to its end when no  *)
(* drag starts.                                                            *)
FrameCursor ==
    /\ frame_pc = "cursor"
    /\ LET c == cursor_move(Self, Val(Val(event).right))
       IN  IF c.is_pinched /\ ~c.is_dragging
                /\ drag_due(now - Val(c.pinch_start_time))
           THEN /\ Commit(drag_start_flags(c))
                /\ frame_pc' = "drag_press"
           ELSE /\ Commit(sticky_pinch(c, c.smoothed_pinch, now))
                /\ frame_pc' = "idle"
    /\ UNCHANGED << window_active, target_window, monitor_stopped, running, now,
                    event, arbitrated, poller_pc, mapping, controller, history >>

(* handle_cursor_mode: self.mouse.press(Button.left). *)
FrameDragPress ==
    /\ frame_pc = "drag_press"
    /\ Commit(mouse_press(Self, "left"))
    /\ frame_pc' = "pinch_end"
    /\ UNCHANGED << window_active, target_window, monitor_stopped, running, now,
                    event, arbitrated, poller_pc, mapping, controller, history >>

(* handle_cursor_mode: `if pinch < self.config.pinch_release:` to the end. *)
FramePinchEnd ==
    /\ frame_pc = "pinch_end"
    /\ Commit(pinch_end(Self, smoothed_pinch, now))
    /\ frame_pc' = "idle"
    /\ UNCHANGED << window_active, target_window, monitor_stopped, running, now,
                    event, arbitrated, poller_pc, mapping, controller, history >>

(* handle_pan_mode: `if not self.is_panning:`, and the move when panning. *)
FramePan ==
    /\ frame_pc = "pan"
    /\ IF ~is_panning
       THEN /\ Commit(Self)
            /\ frame_pc' = "pan_press"
       ELSE /\ Commit(handle_pan_mode(Self, Val(Val(event).left), Val(Val(event).right)))
            /\ frame_pc' = "idle"
    /\ UNCHANGED << window_active, target_window, monitor_stopped, running, now,
                    event, arbitrated, poller_pc, mapping, controller, history >>

(* handle_pan_mode: self.mouse.press(Button.middle). *)
FramePanPress ==
    /\ frame_pc = "pan_press"
    /\ Commit(mouse_press(Self, "middle"))
    /\ frame_pc' = "pan_flag"
    /\ UNCHANGED << window_active, target_window, monitor_stopped, running, now,
                    event, arbitrated, poller_pc, mapping, controller, history >>

(* handle_pan_mode: self.is_panning = True; self.last_pan_pos = ...; return. *)
FramePanFlag ==
    /\ frame_pc = "pan_flag"
    /\ Commit(pan_start_flags(Self, pan_anchor(Val(Val(event).left), Val(Val(event).right))))
    /\ frame_pc' = "idle"
    /\ UNCHANGED << window_active, target_window, monitor_stopped, running, now,
                    event, arbitrated, poller_pc, mapping, controller, history >>

(* The other mode handlers, and a frame no handler takes. *)
FrameHandler ==
    /\ frame_pc = "handler"
    /\ Commit(run_mode_handler(Self, Val(event).left, Val(event).right, now))
    /\ frame_pc' = "idle"
    /\ UNCHANGED << window_active, target_window, monitor_stopped, running, now,
                    event, arbitrated, poller_pc, mapping, controller, history >>

(* _monitor_window: get_frontmost_app(), the flag under the lock, and the  *)
(* test of the state change.                                               *)
PollerSample ==
    /\ ~IsNone(target_window) /\ ~monitor_stopped
    /\ poller_pc = "sleep"
    /\ \E active_app \in { None } \cup { Some(a) : a \in AppNames } :
          IF IsNone(active_app)
          THEN UNCHANGED << window_active, poller_pc >>
          ELSE LET is_active == Lower(Val(target_window)) = Lower(Val(active_app))
                   was_active == window_active
               IN  /\ window_active' = is_active
                   /\ poller_pc' = IF is_active # was_active /\ ~is_active
                                   THEN "test_drag" ELSE "sleep"
    /\ Commit(Self)
    /\ UNCHANGED << target_window, monitor_stopped, running, now, event,
                    arbitrated, frame_pc, mapping, controller, history >>

(* release_all_buttons: `if self.is_dragging:`. *)
PollerTestDrag ==
    /\ poller_pc = "test_drag"
    /\ poller_pc' = IF is_dragging THEN "release_left" ELSE "test_pan"
    /\ Commit(Self)
    /\ UNCHANGED << window_active, target_window, monitor_stopped, running, now,
                    event, arbitrated, frame_pc, mapping, controller, history >>

(* release_all_buttons: self.mouse.release(Button.left). *)
PollerReleaseLeft ==
    /\ poller_pc = "release_left"
    /\ poller_pc' = "clear_drag"
    /\ Commit(mouse_release(Self, "left"))
    /\ UNCHANGED << window_active, target_window, monitor_stopped, running, now,
                    event, arbitrated, frame_pc, mapping, controller, history >>

(* release_all_buttons: self.is_dragging = False; self.is_pinched = False. *)
PollerClearDrag ==
    /\ poller_pc = "clear_drag"
    /\ poller_pc' = "test_pan"
    /\ Commit([ Self EXCEPT !.is_dragging = FALSE, !.is_pinched = FALSE ])
    /\ UNCHANGED << window_active, target_window, monitor_stopped, running, now,
                    event, arbitrated, frame_pc, mapping, controller, history >>

(* release_all_buttons: `if self.is_panning:`. *)
PollerTestPan ==
    /\ poller_pc = "test_pan"
    /\ poller_pc' = IF is_panning THEN "release_middle" ELSE "sleep"
    /\ Commit(Self)
    /\ UNCHANGED << window_active, target_window, monitor_stopped, running, now,
                    event, arbitrated, frame_pc, mapping, controller, history >>

(* release_all_buttons: self.mouse.release(Button.middle). *)
PollerReleaseMiddle ==
    /\ poller_pc = "release_middle"
    /\ poller_pc' = "clear_pan"
    /\ Commit(mouse_release(Self, "middle"))
    /\ UNCHANGED << window_active, target_window, monitor_stopped, running, now,
                    event, arbitrated, frame_pc, mapping, controller, history >>

(* release_all_buttons: self.is_panning = False. *)
PollerClearPan ==
    /\ poller_pc = "clear_pan"
    /\ poller_pc' = "sleep"
    /\ Commit([ Self EXCEPT !.is_panning = FALSE ])
    /\ UNCHANGED << window_active, target_window, monitor_stopped, running, now,
                    event, arbitrated, frame_pc, mapping, controller, history >>

(* main(): Ctrl+C.  The connection closes once the frame in flight has     *)
(* returned, stop_window_monitor() joins the monitor between two of its    *)
(* iterations, and the finally block releases the buttons.                 *)
RaceInterrupted ==
    /\ frame_pc = "idle" /\ poller_pc = "sleep"
    /\ MainInterrupted

NextRace ==
    \/ Tick
    \/ FrameGate \/ FrameDispatch \/ FrameCursor \/ FrameDragPress \/ FramePinchEnd
    \/ FramePan \/ FramePanPress \/ FramePanFlag \/ FrameHandler
    \/ PollerSample \/ PollerTestDrag \/ PollerReleaseLeft \/ PollerClearDrag
    \/ PollerTestPan \/ PollerReleaseMiddle \/ PollerClearPan
    \/ RaceInterrupted

SpecRace == Init /\ [][NextRace]_vars

(* No frame is in flight and the monitor is between two iterations. *)
Quiescent == frame_pc = "idle" /\ poller_pc = "sleep"

(* C11 (as claimed): once the monitor has set the active flag to false and *)
(* finished its release_all_buttons, and any frame in flight has returned, *)
(* no mouse button is pressed for as long as the flag stays false.         *)
C11_FocusLossReleases ==
    (Quiescent /\ ~window_active) => (~left_down /\ ~middle_down)

(* C16 (as claimed): once the monitor's release_all_buttons and the frame  *)
(* in flight have both completed, each held flag agrees with the actuator: *)
(* the left button is down exactly when is_dragging, the middle button     *)
(* exactly when is_panning.                                                *)
C16_RaceKeepsFlags ==
    Quiescent =>
        /\ left_down <=> is_dragging
        /\ middle_down <=> is_panning

(* C12 (as claimed): when main() has run its finally block and the process *)
(* exits, no mouse button is pressed.                                      *)
C12_ShutdownReleases ==
    ~running => (~left_down /\ ~middle_down)

----------------------------------------------------------------------------
(* C21: last_click_time changes only on a step that emits a click, and     *)
(* becomes the time of that click; release_all_buttons, the no-hands       *)
(* release, a mode change, the monitor's focus-loss release and a frame    *)
(* that ends a drag leave it unchanged, so the gap that classifies the     *)
(* next click is measured from the previous click.                         *)
C21_ClickTimeOnlyOnClick ==
    /\ [][last_click_time' # last_click_time =>
              (Clicks(calls') = 1 /\ last_click_time' = now)]_vars
    /\ [](/\ release_all_buttons(Self).last_click_time = last_click_time
          /\ \A app \in AppNames :
                monitor_window_step(Self, Some(app)).self.last_click_time
                    = last_click_time
          /\ Processing =>
                \A ev \in Events :
                    LET r == Frame(ev)
                    IN  (Clicks(r.calls) = 0) => r.last_click_time = last_click_time)

(* C21's case: a drag has just been ended by a frame, after an earlier     *)
(* click whose time is still recorded.                                     *)
C21_Witness ==
    /\ Len(calls) = 2 /\ calls[2] = << "release", "left" >>
    /\ last_click_time > 0 /\ last_click_time < now

----------------------------------------------------------------------------
(* The frames of Events and, with them, the frames whose right palm is 10  *)
(* mm below the upper one: a move too small to scroll.                     *)
WideRightHands ==
    { Hand(gp[1], gp[2], q) : gp \in RightPoses, q \in RightPalms \cup { Palm(0, 215, 0) } }
WideEvents ==
    { [ left |-> l, right |-> r ] :
        l \in OptLeft, r \in { None } \cup { Some(h) : h \in WideRightHands } }

(* The frames handle_scroll_mode handles. *)
ScrollEvents ==
    { ev \in WideEvents : ~IsNone(ev.right) /\ Frame(ev).mode = "SCROLL" }

Scrolls(cs) == { i \in 1..Len(cs) : cs[i][1] = "scroll" }

(* C22: a frame handled by Scroll mode that enters the mode emits no       *)
(* scroll; a handled frame in Scroll mode, whose anchor is then set, emits *)
(* the vertical scroll int((current_y - anchor) * scroll_sensitivity) when *)
(* that is not zero and nothing otherwise; after every handled frame the   *)
(* anchor is the frame's right-hand Y.                                     *)
C22_ScrollAnchoring ==
    /\ mode = "SCROLL" => ~IsNone(last_scroll_y)
    /\ Processing =>
          \A ev \in ScrollEvents :
              LET r == Frame(ev)
                  current_y == Val(ev.right).palm.y
              IN  /\ r.last_scroll_y = Some(current_y)
                  /\ mode # "SCROLL" => Scrolls(r.calls) = {}
                  /\ mode = "SCROLL" =>
                        LET amount == Trunc((current_y - Val(last_scroll_y))
                                                * scroll_sensitivity, 100)
                        IN  r.calls = IF amount # 0
                                      THEN << << "scroll", 0, amount >> >>
                                      ELSE << >>

(* C22's case: a Scroll frame 25 mm below the anchor has just scrolled by  *)
(* int(-25 * 0.05) = -1 and moved the anchor to 200, and a frame 15 mm     *)
(* above that would move the anchor without scrolling.                     *)
C22_Witness ==
    /\ Processing /\ mode = "SCROLL"
    /\ calls = << << "scroll", 0, -1 >> >>
    /\ last_scroll_y = Some(200)
    /\ \E ev \in ScrollEvents :
          /\ Frame(ev).calls = << >>
          /\ Frame(ev).last_scroll_y = Some(215)

----------------------------------------------------------------------------
(* The frames handle_pan_mode handles. *)
PanEvents ==
    { ev \in Events : ~IsNone(ev.left) /\ ~IsNone(ev.right) /\ Frame(ev).mode = "PAN" }

(* C24: a frame handled by Pan mode while the pan button is not held       *)
(* presses the middle button once, records the two-hand average as anchor  *)
(* and emits no move; a handled frame while it is held emits exactly one   *)
(* move, (avg - anchor) * sensitivity truncated with the vertical axis     *)
(* inverted, the button staying down, and moves the anchor to the new      *)
(* average.  While panning, the mode is Pan, the button is down and the    *)
(* anchor is set.  (The averages are doubled, as in handle_pan_mode.)      *)
C24_PanEntryAndMotion ==
    /\ is_panning => (mode = "PAN" /\ middle_down /\ ~IsNone(last_pan_pos))
    /\ Processing =>
          \A ev \in PanEvents :
              LET r == Frame(ev)
                  avg == pan_anchor(Val(ev.left), Val(ev.right))
              IN  /\ r.last_pan_pos = Some(avg)
                  /\ r.is_panning /\ r.middle_down
                  /\ (mode # "PAN" \/ ~is_panning) =>
                        /\ Count(r.calls, "press", "middle") = 1
                        /\ \A i \in 1..Len(r.calls) : r.calls[i][1] # "move"
                  /\ (mode = "PAN" /\ is_panning) =>
                        LET anchor == Val(last_pan_pos)
                        IN  r.calls =
                              << << "move",
                                    Trunc((avg[1] - anchor[1]) * sensitivity, 20),
                                    Trunc(-(avg[2] - anchor[2]) * sensitivity, 20) >> >>

(* C24's case: a Pan frame whose average is 12.5 mm below the anchor has   *)
(* just moved the cursor by int(12.5 * 1.5) = 18 pixels down, the middle   *)
(* button held.                                                            *)
C24_Witness ==
    /\ mode = "PAN" /\ is_panning /\ middle_down
    /\ calls = << << "move", 0, 18 >> >>

----------------------------------------------------------------------------
(* The frames of a gap: no hands (line 567), or the left hand alone with   *)
(* the mode retained (lines 586-589).  The mode handler runs on neither.   *)
GapFrames ==
    { NoHandsEvent } \cup { g \in LoneLeftEvents : Frame(g).mode = mode }

(* The frame ev delivered right after the gap frame g. *)
Resumed(g, ev) == process_frame([ Frame(g) EXCEPT !.calls = << >> ], ev, now)

(* C23: when Scroll or Zoom handling resumes after a gap (a no-hands       *)
(* frame, a lone-left frame that retained the mode, or frames skipped      *)
(* while the target window was inactive), the first resumed frame emits    *)
(* no scroll.                                                              *)
C23_NoStaleAnchor ==
    (running /\ mode \in { "SCROLL", "ZOOM" }) =>
        /\ Active =>
              \A g \in GapFrames : \A ev \in Events :
                  (~IsNone(ev.right) /\ Resumed(g, ev).mode = mode)
                      => Scrolls(Resumed(g, ev).calls) = {}
        /\ ~Active =>
              \A app \in AppNames : \A ev \in Events :
                  LET p == monitor_window_step(Self, Some(app))
                      r == process_frame(p.self, ev, now)
                  IN  (p.active /\ ~IsNone(ev.right) /\ r.mode = mode)
                          => Scrolls(r.calls) = {}

----------------------------------------------------------------------------
(* The focus gate, with and without a target window.                       *)
(* The listener is built either with --window MeshLab or without --window; *)
(* frames and polls of the frontmost application alternate.                *)
InitGate ==
    /\ target_window \in { None, Some("MeshLab") }
    /\ mode = "CURSOR"
    /\ InitListener
    /\ running = TRUE
    /\ now = StartTime
    /\ event = None
    /\ arbitrated = None
    /\ frame_pc = "idle"
    /\ controller = InitController
    /\ history = NoHistory
    /\ poller_pc = "sleep"
    /\ config = None
    /\ mapped = None

GateFrame ==
    /\ running
    /\ \E ev \in RaceEvents :
          Commit(on_tracking_event(Self, ev, window_active, now))
    /\ UNCHANGED << window_active, target_window, monitor_stopped, running, now,
                    event, arbitrated, others >>

NextGate == Tick \/ GateFrame \/ MonitorWindow

SpecGate == InitGate /\ [][NextGate]_vars

(* C25: a frame delivered while a target window is configured and the      *)
(* active flag is false leaves the whole listener state as it was and      *)
(* makes no actuator call and no exit request; with no target window the   *)
(* gate passes whatever the flag holds, and the frame is processed.        *)
C25_FocusGate ==
    /\ (~IsNone(target_window) /\ ~window_active) =>
          \A ev \in Events : on_tracking_event(Self, ev, window_active, now) = Self
    /\ IsNone(target_window) =>
          \A active \in BOOLEAN :
              /\ is_target_window_active(active)
              /\ \A ev \in Events :
                    on_tracking_event(Self, ev, active, now) = process_frame(Self, ev, now)

(* C25's case: the window lost the focus during a pan; a frame that would  *)
(* otherwise act is delivered to the paused listener.                       *)
C25_Witness ==
    /\ ~IsNone(target_window) /\ ~window_active
    /\ mode = "PAN" /\ calls = << >> /\ ~IsNone(smoothed_position)
    /\ \E ev \in RaceEvents :
          /\ process_frame(Self, ev, now).calls # << >>
          /\ on_tracking_event(Self, ev, window_active, now).calls = << >>

----------------------------------------------------------------------------
(* C27: with a target window configured the active flag starts false; a    *)
(* poll that returns a name sets the flag to whether the name equals the   *)
(* target without regard to case, and runs release_all_buttons exactly     *)
(* when the flag goes from true to false; a poll that returns no name      *)
(* leaves the flag and the listener as they were.                          *)
C27_PollerStep ==
    /\ ~IsNone(target_window) => ~window_active
    /\ [](~IsNone(target_window) =>
            /\ \A app \in AppNames :
                  LET p == monitor_window_step(Self, Some(app))
                      same == Lower(app) = Lower(Val(target_window))
                  IN  /\ p.active = same
                      /\ p.self = IF window_active /\ ~same
                                  THEN release_all_buttons(Self) ELSE Self
            /\ LET q == monitor_window_step(Self, None)
               IN  q.active = window_active /\ q.self = Self)
    /\ [][window_active' # window_active =>
            \E app \in AppNames :
                /\ window_active' = (Lower(app) = Lower(Val(target_window)))
                /\ window_active => calls' = release_all_buttons(Self).calls]_vars

(* C27's case: the poll has just seen another application in front while   *)
(* the left button was held in a drag, and has released it; a poll that    *)
(* returns "meshlab" would set the flag again.                             *)
C27_Witness ==
    /\ ~IsNone(target_window) /\ ~window_active
    /\ calls = << << "release", "left" >> >> /\ ~is_dragging /\ ~left_down
    /\ monitor_window_step(Self, Some("meshlab")).active
    /\ ~monitor_window_step(Self, Some("Finder")).active

----------------------------------------------------------------------------
(* C26: a step of the focus-poller thread writes no engine-state variable  *)
(* (mode, click state, held flags, anchors, smoothed values, timers); the  *)
(* only listener variable it writes is the active flag.                    *)
C26_PollerWritesOnlyFlag ==
    [][poller_pc' # poller_pc =>
          UNCHANGED << mode, smoothed_position, smoothed_pinch, is_pinched,
                       pinch_start_time, is_dragging, did_drag, last_click_time,
                       is_panning, last_pan_pos, last_scroll_y, last_hand_distance,
                       exit_start_time >>]_vars

----------------------------------------------------------------------------
(* C28: between frames, state owned by a mode is live only in that mode:   *)
(* is_dragging only in Cursor, is_panning and last_pan_pos only in Pan,    *)
(* last_scroll_y only in Scroll, last_hand_distance only in Zoom,          *)
(* exit_start_time only in ExitPending; and the left and the middle        *)
(* button are never down together.                                         *)
C28_ModeOwnedState ==
    Quiescent =>
        /\ is_dragging => mode = "CURSOR"
        /\ is_panning => mode = "PAN"
        /\ ~IsNone(last_scroll_y) => mode = "SCROLL"
        /\ ~IsNone(last_hand_distance) => mode = "ZOOM"
        /\ ~IsNone(last_pan_pos) => mode = "PAN"
        /\ ~IsNone(exit_start_time) => mode = "EXIT_PENDING"
        /\ ~(left_down /\ middle_down)

----------------------------------------------------------------------------
(* The WebSocket controller: on_message hands every tracking frame to      *)
(* handle_frame; time.time() is read once per frame with hands.            *)
(* A hand of the JSON frame: its type, palm position, and either a         *)
(* pinchStrength field or the tips of its pointables (0 thumb, 1 index).   *)
WsHand(type, palm, pinch) ==
    [ type |-> type, palmPosition |-> palm,
      pinchStrength |-> pinch.pinchStrength, pointables |-> pinch.pointables ]

(* pinchStrength 0.0 and 0.7; tips 20 mm apart (strength 1.0) and 50 mm    *)
(* apart (strength 0.5); neither field (strength 0.0).                     *)
WsPinches ==
    { [ pinchStrength |-> Some(0), pointables |-> << >> ],
      [ pinchStrength |-> Some(ws_click_threshold), pointables |-> << >> ],
      [ pinchStrength |-> None,
        pointables |-> << [ type |-> 0, tipPosition |-> << 0, 0, 0 >> ],
                          [ type |-> 1, tipPosition |-> << 0, 0, 20 >> ] >> ],
      [ pinchStrength |-> None,
        pointables |-> << [ type |-> 0, tipPosition |-> << 0, 0, 0 >> ],
                          [ type |-> 1, tipPosition |-> << 30, 40, 0 >> ] >> ],
      [ pinchStrength |-> None, pointables |-> << >> ] }

WsPalms == { << 0, 225, 0 >>, << -150, 100, 0 >> }

WsHands == { WsHand(ty, q, pn) : ty \in { "left", "right" }, q \in WsPalms, pn \in WsPinches }

(* Frames with no hand, one hand, and two hands of different types in      *)
(* either order (over the same spot, neither with pointables).             *)
WsFrames ==
    { [ hands |-> << >> ] }
        \cup { [ hands |-> << h >> ] : h \in WsHands }
        \cup { [ hands |-> << p[1], p[2] >> ] :
                   p \in { q \in WsHands \X WsHands :
                               /\ q[1].type # q[2].type
                               /\ q[1].palmPosition = q[2].palmPosition
                               /\ q[1].pointables = << >> /\ q[2].pointables = << >> } }

(* The clock readings: 10, 15, 25, 40, 55 and 65 centiseconds apart, on    *)
(* both sides of click_cooldown and double_click_window and on them.       *)
WsReadingAt(i) ==
    CASE i = 1 -> 0
      [] i = 2 -> 10
      [] i = 3 -> 25
      [] i = 4 -> 65
      [] OTHER -> 65 + 50 * (i - 4)

InitWebSocket ==
    /\ target_window = None
    /\ mode = "CURSOR"
    /\ InitListener
    /\ running = TRUE
    /\ now = StartTime
    /\ event = None
    /\ arbitrated = None
    /\ frame_pc = "idle"
    /\ poller_pc = "sleep"
    /\ config = None
    /\ mapped = None
    /\ controller = InitController
    /\ history = NoHistory

WsTick ==
    /\ \E i \in 1..(NumReadings - 1) :
          /\ now = StartTime + WsReadingAt(i)
          /\ now' = StartTime + WsReadingAt(i + 1)
    /\ controller' = [ controller EXCEPT !.calls = << >> ]
    /\ UNCHANGED history
    /\ UNCHANGED << mode, smoothed_position, smoothed_pinch, is_pinched,
                    pinch_start_time, is_dragging, did_drag, last_click_time,
                    is_panning, last_pan_pos, last_scroll_y, last_hand_distance,
                    exit_start_time, window_active, target_window, monitor_stopped,
                    should_exit, running, left_down, middle_down, calls, exit_calls,
                    event, arbitrated, frame_pc, poller_pc, config, mapped >>

(* on_message with a tracking frame: handle_frame(data). *)
HandleFrame ==
    /\ \E data \in WsFrames :
          LET r == handle_frame([ controller EXCEPT !.calls = << >> ], data, now)
              clicked == \E i \in 1..Len(r.calls) : r.calls[i][1] = "click"
          IN  /\ controller' = r
              /\ history' =
                    IF data.hands = << >> THEN history
                    ELSE [ prev |-> history.cur,
                           cur |-> Some(calculate_pinch_strength(select_hand(data.hands))),
                           click_times |-> IF clicked THEN Append(history.click_times, now)
                                           ELSE history.click_times ]
    /\ UNCHANGED now
    /\ UNCHANGED << mode, smoothed_position, smoothed_pinch, is_pinched,
                    pinch_start_time, is_dragging, did_drag, last_click_time,
                    is_panning, last_pan_pos, last_scroll_y, last_hand_distance,
                    exit_start_time, window_active, target_window, monitor_stopped,
                    should_exit, running, left_down, middle_down, calls, exit_calls,
                    event, arbitrated, frame_pc, poller_pc, config, mapped >>

NextWebSocket == WsTick \/ HandleFrame

SpecWebSocket == InitWebSocket /\ [][NextWebSocket]_vars

WsClicks(cs) == { i \in 1..Len(cs) : cs[i][1] = "click" }

(* C29: handle_frame makes at most one click call per frame; it clicks     *)
(* only on a frame with hands whose pinch strength is at least             *)
(* click_threshold while the strength of the frame with hands before it    *)
(* (if there was one) was below; never less than click_cooldown after the  *)
(* click before; and the click is a double click exactly when the click    *)
(* before is at most double_click_window old.                              *)
C29_WebSocketClickEdge ==
    LET clicks == WsClicks(controller.calls)
        n == Len(history.click_times)
    IN  /\ Cardinality(clicks) <= 1
        /\ clicks # {} =>
              /\ ~IsNone(history.cur) /\ Val(history.cur) >= ws_click_threshold
              /\ IsNone(history.prev) \/ Val(history.prev) < ws_click_threshold
              /\ n >= 1 /\ history.click_times[n] = now
              /\ n > 1 => now - history.click_times[n - 1] >= ws_click_cooldown
              /\ \A i \in clicks :
                    (controller.calls[i] = << "click", "left", 2 >>)
                        <=> (n > 1 /\ now - history.click_times[n - 1] <= ws_double_click_window)
              /\ \A i \in clicks : controller.calls[i][3] \in { 1, 2 }

(* C29's case: a rising edge 10 centiseconds after a click was swallowed,  *)
(* and the next one, exactly double_click_window after that click, has     *)
(* just made a double click.                                               *)
C29_Witness ==
    /\ WsClicks(controller.calls) # {}
    /\ controller.calls[Len(controller.calls)] = << "click", "left", 2 >>
    /\ Len(history.click_times) = 2
    /\ history.click_times[1] = StartTime + WsReadingAt(3)
    /\ now = history.click_times[1] + ws_double_click_window
    /\ ~IsNone(history.prev)
====
